---- MODULE Spec2Model ----
(***************************************************************************)
(* UBC Events hub: the Feed page's derivation pipeline (base pool, tag     *)
(* cloud, trending list, filtered/sorted visible list), its selection      *)
(* state, the EventCard save button and the local preference/save store;   *)
(* the Feed's preference listeners with another tab writing the same       *)
(* store (SpecSync); the Onboarding form (SpecOnboarding); the Saved page  *)
(* (SpecPages).                                                            *)
(*                                                                         *)
(* JavaScript strings that the code inspects character by character (tags, *)
(* titles, the search query) are sequences of one-character strings, so    *)
(* that toLowerCase, trim, split and includes are computed, not assumed.   *)
(* Strings the code only compares with === (ids, level, faculty, sort,     *)
(* viewMode) are TLA+ strings.  An absent property of an event is a key    *)
(* missing from the event record's DOMAIN.                                 *)
(***************************************************************************)
EXTENDS Integers, Sequences, FiniteSets, TLC

VARIABLES
    storePrefs,    \* localStorage: the persisted user preferences, or Null
    savedIds,      \* localStorage: the saved event ids
    saveCounts,    \* localStorage: the id -> count object, as its entries in key order
    prefs,         \* Feed state
    viewMode,      \* Feed state: "all" | "personalized"
    events,        \* Feed state: [...custom, ...fileEvents]
    level,         \* Feed state
    sort,          \* Feed state: "trending" | "date"
    q,             \* Feed state: the search box
    selectedTags,  \* Feed state
    loading,       \* Feed state
    error,         \* Feed state
    version,       \* Feed state: bumped after save toggles
    basePool,      \* Feed useMemo value
    tagCloud,      \* Feed useMemo value
    trending,      \* Feed useMemo value
    filtered,      \* Feed useMemo value
    cardSaved,     \* EventCard state savedState, per mounted card (keyed by evt.id)
    mq,            \* one application of matchesQuery: its arguments and its result
    customEvents,  \* localStorage: the custom events getCustomEvents() returns
    onboarding,    \* Onboarding state (name, faculty, interests, touched, error), or Unmounted
    dispatched,    \* the 'userprefs-updated' events the last Onboarding handler dispatched
    storageEvents, \* 'storage' events of other contexts' writes not yet delivered to the Feed
    otherToggle,   \* another context's toggleSaveId between its two writes, or Idle
    savedPage      \* Saved state (events, loading), its cards and its loads in flight, or Unmounted

storeVars == <<storePrefs, savedIds, saveCounts>>
selVars == <<level, sort, q, selectedTags>>
memoVars == <<basePool, tagCloud, trending, filtered>>
feedVars == <<prefs, viewMode, events, loading, error, version>>
vars == <<storePrefs, savedIds, saveCounts, prefs, viewMode, events, level, sort, q,
          selectedTags, loading, error, version, basePool, tagCloud, trending,
          filtered, cardSaved, mq, customEvents, onboarding, dispatched,
          storageEvents, otherToggle, savedPage>>
\* what the Feed's own handlers never touch
pageVars == <<mq, customEvents, onboarding, dispatched, storageEvents, otherToggle,
              savedPage>>

(***************************************************************************)
(* Bounds of the model.                                                    *)
(***************************************************************************)
MaxQueryLen == 3    \* longest search query enumerated for matchesQuery
MaxVersion == 2     \* save toggles per behaviour (caps the version counter)
MaxSelected == 2    \* selected tags at a time
MaxReloads == 2     \* loadEvents() calls of the Saved page's cards in flight
MaxPending == 1     \* 'storage' events waiting to be delivered to the Feed

(***************************************************************************)
(* JavaScript strings as character sequences.                              *)
(***************************************************************************)
UpperCase == <<"A", "B", "C", "D", "E", "F", "G", "H", "I", "J", "K", "L", "M", "N", "O", "P", "Q", "R", "S", "T", "U", "V", "W", "X", "Y", "Z">>
LowerCase == <<"a", "b", "c", "d", "e", "f", "g", "h", "i", "j", "k", "l", "m", "n", "o", "p", "q", "r", "s", "t", "u", "v", "w", "x", "y", "z">>

\* The characters /\s/ and String.prototype.trim treat as white space.
WhiteSpace == {" ", "\t"}

\* the lower-case letter of each upper-case letter
LowerOf ==
    [c \in {UpperCase[i] : i \in DOMAIN UpperCase} |->
        LowerCase[CHOOSE i \in DOMAIN UpperCase : UpperCase[i] = c]]

toLowerCaseChar(c) == IF c \in DOMAIN LowerOf THEN LowerOf[c] ELSE c

\* String.prototype.toLowerCase
toLowerCase(s) == [i \in 1..Len(s) |-> toLowerCaseChar(s[i])]

RECURSIVE trimStart(_)
trimStart(s) ==
    IF s # <<>> /\ Head(s) \in WhiteSpace THEN trimStart(Tail(s)) ELSE s

RECURSIVE trimEnd(_)
trimEnd(s) ==
    IF s # <<>> /\ s[Len(s)] \in WhiteSpace
    THEN trimEnd(SubSeq(s, 1, Len(s) - 1)) ELSE s

\* String.prototype.trim
trim(s) == trimEnd(trimStart(s))

\* String.prototype.includes
includes(hay, w) ==
    \E i \in 0..(Len(hay) - Len(w)) : SubSeq(hay, i + 1, i + Len(w)) = w

\* String.prototype.split(/\s+/): the pieces between maximal runs of white
\* space, empty pieces at either end included.
RECURSIVE splitWsFrom(_, _, _, _, _)
splitWsFrom(s, i, cur, acc, inRun) ==
    IF i > Len(s) THEN Append(acc, cur)
    ELSE IF s[i] \in WhiteSpace
         THEN IF inRun THEN splitWsFrom(s, i + 1, cur, acc, TRUE)
                       ELSE splitWsFrom(s, i + 1, <<>>, Append(acc, cur), TRUE)
         ELSE splitWsFrom(s, i + 1, Append(cur, s[i]), acc, FALSE)

splitWs(s) == splitWsFrom(s, 1, <<>>, <<>>, FALSE)

\* Array.prototype.filter(Boolean) on an array of strings
RECURSIVE filterBoolean(_)
filterBoolean(xs) ==
    IF xs = <<>> THEN <<>>
    ELSE IF Head(xs) = <<>> THEN filterBoolean(Tail(xs))
         ELSE <<Head(xs)>> \o filterBoolean(Tail(xs))

\* The value undefined where it stands in an array of strings: a sequence
\* that is no character sequence.
Undefined == <<"undefined">>

\* Array.prototype.join(sep): undefined elements contribute the empty string.
RECURSIVE join(_, _)
join(xs, sep) ==
    IF xs = <<>> THEN <<>>
    ELSE LET h == IF Head(xs) = Undefined THEN <<>> ELSE Head(xs)
         IN IF Len(xs) = 1 THEN h ELSE h \o sep \o join(Tail(xs), sep)

Range(xs) == {xs[i] : i \in DOMAIN xs}

(***************************************************************************)
(* Events.                                                                 *)
(***************************************************************************)
Has(e, k) == k \in DOMAIN e

\* e.title, e.description, ...: a text property, undefined when absent
Text(e, k) == IF Has(e, k) THEN e[k] ELSE Undefined

\* (e.tags || [])
TagsOf(e) == IF Has(e, "tags") THEN e.tags ELSE <<>>

(***************************************************************************)
(* Feed.matchesQuery                                                       *)
(***************************************************************************)
matchesQuery_some(e, query) ==
    IF trim(query) = <<>> THEN TRUE
    ELSE LET hay == toLowerCase(join(<<Text(e, "title"), Text(e, "description"),
                                       Text(e, "organizer"), Text(e, "location")>>
                                     \o TagsOf(e), <<" ">>))
             words == filterBoolean(splitWs(toLowerCase(query)))
         IN \E i \in DOMAIN words : includes(hay, words[i])

matchesQuery(e, query) ==
    IF trim(query) = <<>> THEN TRUE
    ELSE LET hay == toLowerCase(join(<<Text(e, "title"), Text(e, "description"),
                                       Text(e, "organizer"), Text(e, "location")>>
                                     \o TagsOf(e), <<" ">>))
             words == filterBoolean(splitWs(toLowerCase(query)))
         IN \A i \in DOMAIN words : includes(hay, words[i])

(***************************************************************************)
(* JavaScript numbers as far as the sort comparators need them: finite     *)
(* integers, the infinities and NaN.                                       *)
(***************************************************************************)
Fin(n) == [k |-> "fin", v |-> n]
PosInf == [k |-> "inf"]
NegInf == [k |-> "ninf"]
NaN == [k |-> "nan"]

\* a - b
minus(a, b) ==
    IF a.k = "nan" \/ b.k = "nan" THEN NaN
    ELSE IF a.k = "fin" /\ b.k = "fin" THEN Fin(a.v - b.v)
    ELSE IF a.k = "fin" THEN (IF b.k = "inf" THEN NegInf ELSE PosInf)
    ELSE IF b.k = "fin" THEN a
    ELSE IF a.k = b.k THEN NaN
    ELSE a

\* How Array.prototype.sort reads a comparator's result: NaN counts as +0.
sortSign(n) ==
    IF n.k = "nan" THEN 0
    ELSE IF n.k = "inf" THEN 1
    ELSE IF n.k = "ninf" THEN -1
    ELSE IF n.v > 0 THEN 1 ELSE IF n.v < 0 THEN -1 ELSE 0

\* Array.prototype.sort (stable) on the indices of an array, given the sign
\* c[a][b] of the comparator on each pair of indices: insertion in array
\* order, each element behind every element it does not precede.
RECURSIVE insertIdx(_, _, _)
insertIdx(sorted, k, c) ==
    IF sorted = <<>> THEN <<k>>
    ELSE IF c[k][Head(sorted)] < 0 THEN <<k>> \o sorted
         ELSE <<Head(sorted)>> \o insertIdx(Tail(sorted), k, c)

RECURSIVE sortedPrefix(_, _)
sortedPrefix(k, c) ==
    IF k = 0 THEN <<>> ELSE insertIdx(sortedPrefix(k - 1, c), k, c)

stableSort(xs, c) ==
    LET idx == sortedPrefix(Len(xs), c)
    IN [i \in 1..Len(xs) |-> xs[idx[i]]]

\* Array.prototype.slice(0, n)
slice0(xs, n) == SubSeq(xs, 1, IF Len(xs) < n THEN Len(xs) ELSE n)

(***************************************************************************)
(* Feed: constants and helpers                                             *)
(***************************************************************************)
T_hackathon == <<"h", "a", "c", "k", "a", "t", "h", "o", "n">>
T_web_dev == <<"w", "e", "b", " ", "d", "e", "v">>
T_product_management == <<"p", "r", "o", "d", "u", "c", "t", " ", "m", "a", "n", "a", "g", "e", "m", "e", "n", "t">>
T_data_science == <<"d", "a", "t", "a", " ", "s", "c", "i", "e", "n", "c", "e">>
T_ai == <<"a", "i">>

LEVELS == <<"beginner", "intermediate", "advanced">>
TAG_CLOUD_LIMIT == 5
TRENDING_LIMIT == 3
ALLOWED_TAGS == <<T_hackathon, T_web_dev, T_product_management, T_data_science, T_ai>>

\* getUserPrefs() when nothing is stored
Null == [null |-> TRUE]

\* norm = s => String(s || '').toLowerCase().trim()
norm(s) == IF s = Undefined THEN <<>> ELSE trim(toLowerCase(s))

(***************************************************************************)
(* Feed.basePool                                                           *)
(***************************************************************************)
facultyOk(e, pr) ==
    \/ ~Has(e, "faculty")
    \/ e.faculty = ""
    \/ e.faculty = "All"
    \/ e.faculty = pr.faculty

interestOk(e, pr) ==
    \E i \in DOMAIN TagsOf(e) :
        \E j \in DOMAIN pr.interests : pr.interests[j] = TagsOf(e)[i]

basePoolMemo_prefsOnly(ev, pr, vm) ==
    IF ev = <<>> THEN <<>>
    ELSE IF pr # Null
         THEN LET keep(e) == facultyOk(e, pr) /\ interestOk(e, pr)
              IN SelectSeq(ev, keep)
         ELSE ev

basePoolMemo(ev, pr, vm) ==
    IF ev = <<>> THEN <<>>
    ELSE IF vm = "personalized" /\ pr # Null
         THEN LET keep(e) == facultyOk(e, pr) /\ interestOk(e, pr)
              IN SelectSeq(ev, keep)
         ELSE ev

(***************************************************************************)
(* Feed.tagCloud                                                           *)
(***************************************************************************)
\* every tag of every event of the pool, in iteration order
RECURSIVE poolTags(_)
poolTags(bp) ==
    IF bp = <<>> THEN <<>> ELSE TagsOf(Head(bp)) \o poolTags(Tail(bp))

\* counts[n] = (counts[n] || 0) + 1 on an object held as its entries
bump(counts, n) ==
    IF \E i \in DOMAIN counts : counts[i][1] = n
    THEN [i \in DOMAIN counts |->
            IF counts[i][1] = n THEN <<n, counts[i][2] + 1>> ELSE counts[i]]
    ELSE Append(counts, <<n, 1>>)

\* new Set(ALLOWED_TAGS.map(norm))
allowedNorm == {norm(ALLOWED_TAGS[i]) : i \in DOMAIN ALLOWED_TAGS}

\* one pass of the counting loop's body over the pool's tags
countTag(counts, n) == IF n \in allowedNorm THEN bump(counts, n) ELSE counts

RECURSIVE countTags(_, _)
countTags(tags, counts) ==
    IF tags = <<>> THEN counts
    ELSE countTags(Tail(tags), countTag(counts, norm(Head(tags))))

\* (a, b) => b[1] - a[1] on every pair of entries
byCountDesc(entries) ==
    [a \in DOMAIN entries |-> [b \in DOMAIN entries |->
        sortSign(minus(Fin(entries[b][2]), Fin(entries[a][2])))]]

canonicalTag(normTag) ==
    IF \E i \in DOMAIN ALLOWED_TAGS : norm(ALLOWED_TAGS[i]) = normTag
    THEN ALLOWED_TAGS[CHOOSE i \in DOMAIN ALLOWED_TAGS :
            /\ norm(ALLOWED_TAGS[i]) = normTag
            /\ \A j \in 1..(i - 1) : norm(ALLOWED_TAGS[j]) # normTag]
    ELSE normTag

\* Object.entries(counts).sort((a, b) => b[1] - a[1])
sortByCountDesc(entries) == stableSort(entries, byCountDesc(entries))

\* .map(([normTag, count]) => ({ tag: canonical, count }))
cloudEntries(top) ==
    [i \in DOMAIN top |-> [tag |-> canonicalTag(top[i][1]), count |-> top[i][2]]]

tagCloudMemo_unsorted(bp) ==
    cloudEntries(slice0(countTags(poolTags(bp), <<>>), TAG_CLOUD_LIMIT))

tagCloudMemo(bp) ==
    cloudEntries(slice0(sortByCountDesc(countTags(poolTags(bp), <<>>)), TAG_CLOUD_LIMIT))

(***************************************************************************)
(* Feed.trending                                                           *)
(***************************************************************************)
\* new Map(basePool.map(e => [e.id, e])): a later event of the same id
\* replaces the earlier one
idToEventHas(bp, id) == \E i \in DOMAIN bp : bp[i].id = id

idToEventGet(bp, id) ==
    bp[CHOOSE i \in DOMAIN bp :
        bp[i].id = id /\ \A j \in (i + 1)..Len(bp) : bp[j].id # id]

trendingKept_anyCount(bp, counts) ==
    LET keep(en) == idToEventHas(bp, en[1])
    IN SelectSeq(counts, keep)

\* .filter(([id, c]) => c > 0 && idToEvent.has(id))
trendingKept(bp, counts) ==
    LET keep(en) == en[2] > 0 /\ idToEventHas(bp, en[1])
    IN SelectSeq(counts, keep)

\* .map(([id, count]) => ({ evt: idToEvent.get(id), count }))
trendingEntries(bp, top) ==
    [i \in DOMAIN top |-> [evt |-> idToEventGet(bp, top[i][1]), count |-> top[i][2]]]

trendingMemo(bp, counts) ==
    IF bp = <<>> THEN <<>>
    ELSE trendingEntries(bp, slice0(sortByCountDesc(trendingKept(bp, counts)),
                                    TRENDING_LIMIT))

(***************************************************************************)
(* Feed.dateOrInfinity and Feed.filtered                                   *)
(***************************************************************************)
\* An event's start property as the code reads it: undefined, the empty
\* string, a string Date cannot parse, or an ISO date (its time in days).
IsoUndefined == [kind |-> "undefined"]
IsoEmpty == [kind |-> "empty"]
IsoInvalid == [kind |-> "invalid"]
Iso(t) == [kind |-> "date", ms |-> t]

StartOf(e) == IF Has(e, "start") THEN e.start ELSE IsoUndefined

\* new Date(iso).getTime()
getTime(iso) == IF iso.kind = "date" THEN Fin(iso.ms) ELSE NaN

dateOrInfinity_zero(iso) ==
    IF iso.kind \in {"undefined", "empty"} THEN Fin(0)
    ELSE LET t == getTime(iso) IN IF t.k = "fin" THEN t ELSE Fin(0)

dateOrInfinity(iso) ==
    IF iso.kind \in {"undefined", "empty"} THEN PosInf
    ELSE LET t == getTime(iso) IN IF t.k = "fin" THEN t ELSE PosInf

\* (a, b) => dateOrInfinity(a.start) - dateOrInfinity(b.start)
compareDate(a, b) == minus(dateOrInfinity(StartOf(a)), dateOrInfinity(StartOf(b)))

\* +savedSet.has(id)
savedNum(saved, id) == IF id \in saved THEN 1 ELSE 0

compareTrending_dateOnly(a, b, saved) == compareDate(a, b)

\* the comparator of the trending sort: saved first, then by date
compareTrending(a, b, saved) ==
    LET savedDiff == savedNum(saved, b.id) - savedNum(saved, a.id)
    IN IF savedDiff # 0 THEN Fin(savedDiff) ELSE compareDate(a, b)

levelOk(e, lv) == lv = "all" \/ (Has(e, "level") /\ e.level = lv)

tagsOk_all(e, sel) ==
    \A j \in DOMAIN sel : \E i \in DOMAIN TagsOf(e) : norm(TagsOf(e)[i]) = norm(sel[j])

\* (e.tags || []).some(t => selectedNorm.has(norm(t)))
tagsOk(e, sel) ==
    \E i \in DOMAIN TagsOf(e) : \E j \in DOMAIN sel : norm(sel[j]) = norm(TagsOf(e)[i])

\* [...xs].sort((a, b) => dateOrInfinity(a.start) - dateOrInfinity(b.start))
sortByDate(xs) ==
    stableSort(xs, [a \in DOMAIN xs |-> [b \in DOMAIN xs |->
                        sortSign(compareDate(xs[a], xs[b]))]])

\* [...xs].sort(the trending comparator)
sortByTrending(xs, saved) ==
    stableSort(xs, [a \in DOMAIN xs |-> [b \in DOMAIN xs |->
                        sortSign(compareTrending(xs[a], xs[b], saved))]])

withSearchOf(bp, lv, qq, sel) ==
    LET keep(e) == /\ levelOk(e, lv)
                   /\ (Len(sel) # 0 => tagsOk(e, sel))
                   /\ matchesQuery(e, qq)
    IN SelectSeq(bp, keep)

filteredMemo(bp, lv, so, qq, sel, saved) ==
    IF so = "date"
    THEN sortByDate(withSearchOf(bp, lv, qq, sel))
    ELSE sortByTrending(withSearchOf(bp, lv, qq, sel), saved)

(***************************************************************************)
(* lib/storage.js: the save store (saved ids and save counts).             *)
(***************************************************************************)
\* (counts[id] || 0)
countOf(counts, id) ==
    IF \E i \in DOMAIN counts : counts[i][1] = id
    THEN counts[CHOOSE i \in DOMAIN counts : counts[i][1] = id][2]
    ELSE 0

\* counts[id] = n on an object held as its entries
setCount(counts, id, n) ==
    IF \E i \in DOMAIN counts : counts[i][1] = id
    THEN [i \in DOMAIN counts |-> IF counts[i][1] = id THEN <<id, n>> ELSE counts[i]]
    ELSE Append(counts, <<id, n>>)

toggleSaveId_noFloor(st, id) ==
    IF id \in st.saved
    THEN [saved |-> st.saved \ {id},
          counts |-> setCount(st.counts, id, countOf(st.counts, id) - 1)]
    ELSE [saved |-> st.saved \cup {id},
          counts |-> setCount(st.counts, id, countOf(st.counts, id) + 1)]

toggleSaveId_noDecrement(st, id) ==
    IF id \in st.saved
    THEN [saved |-> st.saved \ {id}, counts |-> st.counts]
    ELSE [saved |-> st.saved \cup {id},
          counts |-> setCount(st.counts, id, countOf(st.counts, id) + 1)]

\* toggleSaveId(id): flips the id's membership in the saved ids and moves its
\* count by one in the same direction, never below 0.
toggleSaveId(st, id) ==
    IF id \in st.saved
    THEN [saved |-> st.saved \ {id},
          counts |-> setCount(st.counts, id,
                        IF countOf(st.counts, id) > 0 THEN countOf(st.counts, id) - 1 ELSE 0)]
    ELSE [saved |-> st.saved \cup {id},
          counts |-> setCount(st.counts, id, countOf(st.counts, id) + 1)]

\* the store as getSavedIds() and getSaveCounts() read it
Store == [saved |-> savedIds, counts |-> saveCounts]

EmptyStore == [saved |-> {}, counts |-> <<>>]

(***************************************************************************)
(* Rendering: the useMemo values and the mounted EventCards after a state  *)
(* change.  refs names the array/object states given a new reference by    *)
(* the change (React compares dependencies with Object.is); cards holds    *)
(* the mounted cards' savedState after the handler ran.                    *)
(***************************************************************************)
\* basePool's memo returns the events array itself
returnsEvents(ev, pr, vm) == ev # <<>> /\ ~(vm = "personalized" /\ pr # Null)

idsOf(xs) == {xs[i].id : i \in DOMAIN xs}

RenderWith(refs, cards, bpNew, bpRef) ==
    /\ basePool' = bpNew
    /\ tagCloud' = IF bpRef THEN tagCloudMemo(bpNew) ELSE tagCloud
    /\ trending' = IF bpRef \/ version' # version
                   THEN trendingMemo(bpNew, saveCounts') ELSE trending
    /\ filtered' = IF \/ bpRef
                      \/ level' # level
                      \/ sort' # sort
                      \/ q' # q
                      \/ "selectedTags" \in refs
                      \/ version' # version
                   THEN filteredMemo(bpNew, level', sort', q', selectedTags', savedIds')
                   ELSE filtered
    /\ cardSaved' = [id \in idsOf(filtered') |->
                         IF id \in DOMAIN cards THEN cards[id] ELSE id \in savedIds']

Render(refs, cards) ==
    LET bpRun == "events" \in refs \/ "prefs" \in refs \/ viewMode' # viewMode
    IN RenderWith(refs, cards,
                  IF bpRun THEN basePoolMemo(events', prefs', viewMode') ELSE basePool,
                  /\ bpRun
                  /\ ~ /\ returnsEvents(events', prefs', viewMode')
                       /\ returnsEvents(events, prefs, viewMode)
                       /\ "events" \notin refs)

(***************************************************************************)
(* Inputs: the event catalog (loadEvents), the custom events               *)
(* (getCustomEvents), the stored preferences and the stored saves a Feed   *)
(* can be mounted on, the queries typed.                                   *)
(***************************************************************************)
T_AI == <<"A", "I">>
T_Web_Dev == <<"W", "e", "b", " ", "D", "e", "v">>
T_Hackathon_padded == <<" ", "H", "a", "c", "k", "a", "t", "h", "o", "n", " ">>
T_design == <<"d", "e", "s", "i", "g", "n">>
T_hackathons == <<"h", "a", "c", "k", "a", "t", "h", "o", "n", "s">>

EvHack ==
    [id |-> "e1", title |-> <<"A", "I">>,
     organizer |-> <<"U", "B", "C">>, location |-> <<"N", "e", "s", "t">>, level |-> "beginner",
     faculty |-> "Science", tags |-> <<T_ai, T_hackathon>>, start |-> Iso(10)]

EvTalk ==
    [id |-> "e2", title |-> <<"T", "a", "l", "k">>, tags |-> <<T_design>>]

EvWeb ==
    [id |-> "e3", title |-> <<"W", "e", "b">>, location |-> <<"N", "e", "s", "t">>,
     level |-> "advanced", faculty |-> "All", tags |-> <<T_Web_Dev, T_AI>>,
     start |-> Iso(5)]

EvArts ==
    [id |-> "e4", title |-> <<"A", "r", "t">>, level |-> "beginner", faculty |-> "Arts",
     tags |-> <<T_ai, T_Hackathon_padded>>, start |-> IsoInvalid]

EvMine ==
    [id |-> "c1", title |-> <<"M", "e">>, isCustom |-> TRUE,
     tags |-> <<T_web_dev>>, start |-> IsoEmpty]

\* What the load on mount can deliver: getCustomEvents() and the catalog of
\* loadEvents().
Loads ==
    { [custom |-> <<>>, file |-> <<>>],
      [custom |-> <<EvMine>>, file |-> <<EvHack, EvTalk>>],
      [custom |-> <<>>, file |-> <<EvTalk, EvWeb, EvArts, EvHack>>] }

PrefsAna == [name |-> <<"A", "n", "a">>, faculty |-> "Science", interests |-> <<T_ai, T_hackathons>>]

\* Saves left in localStorage by earlier sessions and other contexts.  Event
\* ids are not array-index strings, so Object.entries(counts) lists them in
\* insertion order.
RichStore ==
    [saved |-> {"e1", "e3"},
     counts |-> << <<"e3", 1>>, <<"gone", 2>>, <<"e1", 3>>, <<"e2", 1>>,
                   <<"e4", 2>>, <<"c1", 0>> >>]

\* What localStorage holds when the Feed mounts.
InitStorage ==
    { [prefs |-> Null, store |-> EmptyStore],
      [prefs |-> PrefsAna, store |-> RichStore] }

Queries ==
    { <<>>, <<" ", "N", "e", "s", "t", " ", " ", "W", "E", "B", " ">> }

MqIdle == [done |-> FALSE]

\* a page that is not on screen has no state
Unmounted == [mounted |-> FALSE]

\* no call of toggleSaveId under way in another context
Idle == [busy |-> FALSE]

\* what getCustomEvents() can hold
CustomStores == {ld.custom : ld \in Loads}

InitFeed(sp, st) ==
    /\ storePrefs = sp
    /\ savedIds = st.saved
    /\ saveCounts = st.counts
    /\ prefs = sp
    /\ viewMode = IF sp # Null THEN "personalized" ELSE "all"
    /\ events = <<>>
    /\ level = "all"
    /\ sort = "trending"
    /\ q = <<>>
    /\ selectedTags = <<>>
    /\ loading = TRUE
    /\ error = ""
    /\ version = 0
    /\ basePool = <<>>
    /\ tagCloud = <<>>
    /\ trending = <<>>
    /\ filtered = <<>>
    /\ cardSaved = [id \in {} |-> FALSE]

\* no Onboarding and no Saved page on screen, no other context writing
InitOthers ==
    /\ mq = MqIdle
    /\ onboarding = Unmounted
    /\ dispatched = <<>>
    /\ storageEvents = 0
    /\ otherToggle = Idle
    /\ savedPage = Unmounted

Init ==
    /\ \E ls \in InitStorage : InitFeed(ls.prefs, ls.store)
    /\ customEvents \in CustomStores
    /\ InitOthers

(***************************************************************************)
(* Feed: the catalog load started on mount                                 *)
(***************************************************************************)
LoadResolved(fileEvents) ==
    /\ loading
    /\ events' = customEvents \o fileEvents
    /\ loading' = FALSE
    /\ UNCHANGED <<storeVars, prefs, viewMode, selVars, error, version, pageVars>>
    /\ Render({"events"}, cardSaved)

LoadRejected ==
    /\ loading
    /\ error' = "Failed to load events"
    /\ loading' = FALSE
    /\ UNCHANGED <<storeVars, prefs, viewMode, events, selVars, version, pageVars>>
    /\ Render({}, cardSaved)

(***************************************************************************)
(* Feed: the selection-state setters and clearAllFilters                   *)
(***************************************************************************)
setViewMode(m) ==
    /\ m # viewMode
    /\ viewMode' = m
    /\ UNCHANGED <<storeVars, prefs, events, selVars, loading, error, version, pageVars>>
    /\ Render({}, cardSaved)

setLevel(l) ==
    /\ l # level
    /\ level' = l
    /\ UNCHANGED <<storeVars, feedVars, sort, q, selectedTags, pageVars>>
    /\ Render({}, cardSaved)

setSort(so) ==
    /\ so # sort
    /\ sort' = so
    /\ UNCHANGED <<storeVars, feedVars, level, q, selectedTags, pageVars>>
    /\ Render({}, cardSaved)

setQ(text) ==
    /\ text # q
    /\ q' = text
    /\ UNCHANGED <<storeVars, feedVars, level, sort, selectedTags, pageVars>>
    /\ Render({}, cardSaved)

\* (variant) the tag is appended whether or not it is selected
toggledTags_append(prev, tag) == Append(prev, tag)

\* prev => prev.includes(tag) ? prev.filter(t => t !== tag) : [...prev, tag]
toggledTags(prev, tag) ==
    IF \E i \in DOMAIN prev : prev[i] = tag
    THEN LET other(t) == t # tag IN SelectSeq(prev, other)
    ELSE Append(prev, tag)

\* a click on a chip of the tag cloud
toggleTag(tag) ==
    /\ \E i \in DOMAIN tagCloud : tagCloud[i].tag = tag
    /\ Len(toggledTags(selectedTags, tag)) <= MaxSelected
    /\ selectedTags' = toggledTags(selectedTags, tag)
    /\ UNCHANGED <<storeVars, feedVars, level, sort, q, pageVars>>
    /\ Render({"selectedTags"}, cardSaved)

clearAllFilters_andView ==
    /\ level' = "all"
    /\ sort' = "trending"
    /\ q' = <<>>
    /\ selectedTags' = <<>>
    /\ viewMode' = "all"
    /\ UNCHANGED <<storeVars, prefs, events, loading, error, version, pageVars>>
    /\ Render({"selectedTags"}, cardSaved)

clearAllFilters ==
    /\ level' = "all"
    /\ sort' = "trending"
    /\ q' = <<>>
    /\ selectedTags' = <<>>
    /\ UNCHANGED <<storeVars, feedVars, pageVars>>
    /\ Render({"selectedTags"}, cardSaved)

(***************************************************************************)
(* The save buttons: EventCard's, and the trending card's in Feed          *)
EventCardSaveClick_noVersion(id) ==
    /\ id \in DOMAIN cardSaved
    /\ version < MaxVersion
    /\ LET wasSaved == cardSaved[id]
           st == toggleSaveId(Store, id)
       IN /\ savedIds' = st.saved
          /\ saveCounts' = st.counts
          /\ UNCHANGED <<storePrefs, feedVars, selVars, pageVars>>
          /\ Render({}, [cardSaved EXCEPT ![id] = ~wasSaved])


(***************************************************************************)
EventCardSaveClick(id) ==
    /\ id \in DOMAIN cardSaved
    /\ version < MaxVersion
    /\ LET wasSaved == cardSaved[id]
           st == toggleSaveId(Store, id)
       IN /\ savedIds' = st.saved
          /\ saveCounts' = st.counts
          /\ version' = version + 1
          /\ UNCHANGED <<storePrefs, prefs, viewMode, events, loading, error, selVars, pageVars>>
          /\ Render({}, [cardSaved EXCEPT ![id] = ~wasSaved])

TrendingSaveClick(id) ==
    /\ \E i \in DOMAIN trending : trending[i].evt.id = id
    /\ version < MaxVersion
    /\ LET st == toggleSaveId(Store, id)
       IN /\ savedIds' = st.saved
          /\ saveCounts' = st.counts
          /\ version' = version + 1
          /\ UNCHANGED <<storePrefs, prefs, viewMode, events, loading, error, selVars, pageVars>>
          /\ Render({}, cardSaved)

Next ==
    \/ \E ld \in Loads : ld.custom = customEvents /\ LoadResolved(ld.file)
    \/ LoadRejected
    \/ \E m \in {"all", "personalized"} : setViewMode(m)
    \/ \E l \in {"all"} \cup Range(LEVELS) : setLevel(l)
    \/ \E so \in {"trending", "date"} : setSort(so)
    \/ \E text \in Queries : setQ(text)
    \/ \E tag \in Range(ALLOWED_TAGS) : toggleTag(tag)
    \/ clearAllFilters
    \/ \E id \in DOMAIN cardSaved : EventCardSaveClick(id)
    \/ \E id \in idsOf(events) : TrendingSaveClick(id)

Spec == Init /\ [][Next]_vars

(***************************************************************************)
(* Another browsing context on the same localStorage, and the Feed's       *)
(* 'storage' listener.  The other context's writes are not isolated from   *)
(* the Feed's: its toggleSaveId writes the saved ids and the save counts   *)
(* as two writes, and the Feed may run between them.  Every write that     *)
(* changes a key raises one 'storage' event in the Feed's context.         *)
(***************************************************************************)
\* the preferences another context's Onboarding saves
OtherPayloads == {PrefsAna}

\* the events another context shows a save button for
OtherIds == {"e1"}

flipSaved(saved, id) == IF id \in saved THEN saved \ {id} ELSE saved \cup {id}

adjustCount(counts, id, wasSaved) ==
    setCount(counts, id,
             IF wasSaved
             THEN IF countOf(counts, id) > 0 THEN countOf(counts, id) - 1 ELSE 0
             ELSE countOf(counts, id) + 1)

\* saveUserPrefs(payload) in another context
OtherSavePrefs(payload) ==
    /\ storageEvents < MaxPending
    /\ payload # storePrefs
    /\ storePrefs' = payload
    /\ storageEvents' = storageEvents + 1
    /\ UNCHANGED <<savedIds, saveCounts, feedVars, selVars, memoVars, cardSaved, mq,
                   customEvents, onboarding, dispatched, otherToggle, savedPage>>

\* toggleSaveId(id) in another context: the write of the saved ids
OtherToggleIds(id) ==
    /\ otherToggle = Idle
    /\ storageEvents < MaxPending
    /\ otherToggle' = [busy |-> TRUE, id |-> id, wasSaved |-> id \in savedIds]
    /\ savedIds' = flipSaved(savedIds, id)
    /\ storageEvents' = storageEvents + 1
    /\ UNCHANGED <<storePrefs, saveCounts, feedVars, selVars, memoVars, cardSaved, mq,
                   customEvents, onboarding, dispatched, savedPage>>

\* toggleSaveId(id) in another context: the write of the save counts
OtherToggleCounts ==
    /\ otherToggle # Idle
    /\ storageEvents < MaxPending
    /\ saveCounts' = adjustCount(saveCounts, otherToggle.id, otherToggle.wasSaved)
    /\ otherToggle' = Idle
    /\ storageEvents' = IF saveCounts' # saveCounts THEN storageEvents + 1 ELSE storageEvents
    /\ UNCHANGED <<storePrefs, savedIds, feedVars, selVars, memoVars, cardSaved, mq,
                   customEvents, onboarding, dispatched, savedPage>>

\* the Feed's 'storage' listener: setPrefs(getUserPrefs()).  getUserPrefs()
\* parses the stored value into a new object, or returns null.
onStorage ==
    /\ storageEvents > 0
    /\ storageEvents' = storageEvents - 1
    /\ prefs' = storePrefs
    /\ UNCHANGED <<storeVars, viewMode, events, loading, error, version, selVars, mq,
                   customEvents, onboarding, dispatched, otherToggle, savedPage>>
    /\ Render(IF storePrefs = Null /\ prefs = Null THEN {} ELSE {"prefs"}, cardSaved)

InitSync ==
    /\ \E ls \in InitStorage : InitFeed(ls.prefs, ls.store)
    /\ customEvents = <<EvMine>>
    /\ InitOthers

NextSync ==
    \/ \E ld \in Loads : ld.custom = customEvents /\ LoadResolved(ld.file)
    \/ \E m \in {"all", "personalized"} : setViewMode(m)
    \/ \E id \in DOMAIN cardSaved : EventCardSaveClick(id)
    \/ \E id \in idsOf(events) : TrendingSaveClick(id)
    \/ \E payload \in OtherPayloads : OtherSavePrefs(payload)
    \/ \E id \in OtherIds : OtherToggleIds(id)
    \/ OtherToggleCounts
    \/ onStorage

SpecSync == InitSync /\ [][NextSync]_vars

\* preferences with other interests, saved in another context
PrefsWeb == [name |-> <<"A", "n", "a">>, faculty |-> "Science", interests |-> <<T_design, T_web_dev>>]

TagPayloads == {PrefsAna, PrefsWeb}

\* The Feed's tag chips, with the view mode switched and the preferences
\* rewritten by another context.
NextTags ==
    \/ \E ld \in Loads : ld.custom = customEvents /\ LoadResolved(ld.file)
    \/ \E m \in {"all", "personalized"} : setViewMode(m)
    \/ \E tag \in Range(ALLOWED_TAGS) : toggleTag(tag)
    \/ clearAllFilters
    \/ \E payload \in TagPayloads : OtherSavePrefs(payload)
    \/ onStorage

SpecTags == InitSync /\ [][NextTags]_vars

(***************************************************************************)
(* Onboarding: the preferences form, in the same context as the Feed.  The *)
(* source holds the component twice: the first saves with saveUserPrefs    *)
(* alone (handleSaveAndContinue1 below), the second saves through          *)
(* saveAndNotify, which also dispatches 'userprefs-updated' on window.     *)
(***************************************************************************)
FACULTIES ==
    <<"Sauder (Business)", "Applied Science / Engineering", "Science", "Arts",
      "Land & Food Systems", "Forestry", "Computer Science",
      "Medicine & Health Sciences", "Education", "Law">>

MIN_INTERESTS == 2
MAX_INTERESTS == 5

T_ux_ui == <<"u", "x", "/", "u", "i">>
T_social == <<"s", "o", "c", "i", "a", "l">>
T_finance == <<"f", "i", "n", "a", "n", "c", "e">>
T_climate == <<"c", "l", "i", "m", "a", "t", "e">>
T_startups == <<"s", "t", "a", "r", "t", "u", "p", "s">>

\* preferences saved earlier with the largest number of interests
PrefsFive ==
    [name |-> <<"A", "n", "a">>, faculty |-> "Arts",
     interests |-> <<T_ux_ui, T_social, T_finance, T_climate, T_startups>>]

\* what the name input receives, the faculty chips and the interest chips clicked
NameInputs == { <<" ">>, <<" ", "A", "n", "a", " ">> }
FacultyPicks == {"Science"}
InterestPicks == {T_ai, T_social}

NoTouch == [name |-> FALSE, faculty |-> FALSE, interests |-> FALSE]
AllTouched == [name |-> TRUE, faculty |-> TRUE, interests |-> TRUE]

\* the useState initial values
EmptyForm ==
    [mounted |-> TRUE, name |-> <<>>, faculty |-> "", interests |-> <<>>,
     touched |-> NoTouch, error |-> ""]

pageOthers == <<mq, customEvents, storageEvents, otherToggle, savedPage>>

\* the page is opened: the mount effect loads the stored preferences
OnboardingMount ==
    /\ onboarding = Unmounted
    /\ onboarding' = IF storePrefs # Null
                     THEN [EmptyForm EXCEPT !.name = storePrefs.name,
                                            !.faculty = storePrefs.faculty,
                                            !.interests = storePrefs.interests]
                     ELSE EmptyForm
    /\ dispatched' = <<>>
    /\ UNCHANGED <<storeVars, feedVars, selVars, memoVars, cardSaved, pageOthers>>

\* onChange of the name input
setName(text) ==
    /\ onboarding # Unmounted
    /\ text # onboarding.name
    /\ onboarding' = [onboarding EXCEPT !.name = text]
    /\ dispatched' = <<>>
    /\ UNCHANGED <<storeVars, feedVars, selVars, memoVars, cardSaved, pageOthers>>

\* onClick of a faculty chip
setFaculty(f) ==
    /\ onboarding # Unmounted
    /\ onboarding' = [onboarding EXCEPT !.faculty = f, !.touched.faculty = TRUE]
    /\ dispatched' = <<>>
    /\ UNCHANGED <<storeVars, feedVars, selVars, memoVars, cardSaved, pageOthers>>

toggledInterests_noMax(prev, tag) ==
    IF \E i \in DOMAIN prev : prev[i] = tag
    THEN LET other(t) == t # tag IN SelectSeq(prev, other)
    ELSE Append(prev, tag)


toggledInterests(prev, tag) ==
    IF \E i \in DOMAIN prev : prev[i] = tag
    THEN LET other(t) == t # tag IN SelectSeq(prev, other)
    ELSE IF Len(prev) >= MAX_INTERESTS THEN prev ELSE Append(prev, tag)

toggleInterest(tag) ==
    /\ onboarding # Unmounted
    /\ onboarding' =
          [onboarding EXCEPT
              !.interests = toggledInterests(onboarding.interests, tag),
              !.error = IF /\ \A i \in DOMAIN onboarding.interests :
                                  onboarding.interests[i] # tag
                           /\ Len(onboarding.interests) >= MAX_INTERESTS
                        THEN "You can select up to 5 interests." ELSE ""]
    /\ dispatched' = <<>>
    /\ UNCHANGED <<storeVars, feedVars, selVars, memoVars, cardSaved, pageOthers>>

\* name.trim().length > 0 && !!faculty && interests.length >= MIN_INTERESTS
valid(form) ==
    /\ Len(trim(form.name)) > 0
    /\ form.faculty # ""
    /\ Len(form.interests) >= MIN_INTERESTS

payloadOf(form) ==
    [name |-> trim(form.name), faculty |-> form.faculty, interests |-> form.interests]


\* the Feed's 'userprefs-updated' listener; the listener is registered anew
\* on every change of viewMode, so it reads the current one
onPrefsUpdated(detail) ==
    LET newPrefs == IF detail # Null THEN detail ELSE storePrefs'
    IN /\ prefs' = newPrefs
       /\ viewMode' = IF newPrefs # Null /\ viewMode = "all" THEN "personalized"
                      ELSE viewMode
       /\ UNCHANGED <<events, loading, error, version, selVars>>
       /\ Render(IF newPrefs = Null /\ prefs = Null THEN {} ELSE {"prefs"}, cardSaved)

\* saveUserPrefs(payload), then dispatchEvent runs the listeners at once
saveAndNotify(payload) ==
    /\ storePrefs' = payload
    /\ dispatched' = <<payload>>
    /\ UNCHANGED <<savedIds, saveCounts, pageOthers>>
    /\ onPrefsUpdated(payload)

notSaved ==
    /\ dispatched' = <<>>
    /\ UNCHANGED <<storeVars, feedVars, selVars, memoVars, cardSaved, pageOthers>>

\* 'Save & Continue' of the first Onboarding: no event is dispatched
handleSaveAndContinue1 ==
    /\ onboarding # Unmounted
    /\ IF valid(onboarding)
       THEN /\ storePrefs' = payloadOf(onboarding)
            /\ onboarding' = Unmounted
            /\ dispatched' = <<>>
            /\ UNCHANGED <<savedIds, saveCounts, feedVars, selVars, memoVars, cardSaved,
                           pageOthers>>
       ELSE /\ onboarding' = [onboarding EXCEPT !.touched = AllTouched]
            /\ notSaved

\* 'Save & Continue' of the second Onboarding
handleSaveAndContinue ==
    /\ onboarding # Unmounted
    /\ IF valid(onboarding)
       THEN /\ saveAndNotify(payloadOf(onboarding))
            /\ onboarding' = Unmounted
       ELSE /\ onboarding' = [onboarding EXCEPT !.touched = AllTouched]
            /\ notSaved

\* 'Save' of the second Onboarding
handleSave ==
    /\ onboarding # Unmounted
    /\ onboarding' = [onboarding EXCEPT !.touched = AllTouched]
    /\ IF valid(onboarding)
       THEN saveAndNotify(payloadOf(onboarding))
       ELSE notSaved

\* 'Reset' of the first Onboarding
handleReset ==
    /\ onboarding # Unmounted
    /\ onboarding' = EmptyForm
    /\ notSaved

\* 'Reset' of the second Onboarding
handleResetLocal ==
    /\ onboarding # Unmounted
    /\ onboarding' = EmptyForm
    /\ notSaved

\* 'Skip for now': nav('/feed')
skipForNow ==
    /\ onboarding # Unmounted
    /\ onboarding' = Unmounted
    /\ notSaved

\* the preferences left in localStorage by earlier uses of the form
InitOnboarding ==
    /\ \E sp \in {Null, PrefsAna, PrefsFive} : InitFeed(sp, EmptyStore)
    /\ customEvents = <<EvMine>>
    /\ InitOthers

NextOnboarding ==
    \/ OnboardingMount
    \/ \E text \in NameInputs : setName(text)
    \/ \E f \in FacultyPicks : setFaculty(f)
    \/ \E tag \in InterestPicks : toggleInterest(tag)
    \/ handleSaveAndContinue1
    \/ handleSaveAndContinue
    \/ handleSave
    \/ handleReset
    \/ handleResetLocal
    \/ skipForNow
    \/ \E ld \in Loads : ld.custom = customEvents /\ LoadResolved(ld.file)
    \/ \E m \in {"all", "personalized"} : setViewMode(m)

SpecOnboarding == InitOnboarding /\ [][NextOnboarding]_vars


(***************************************************************************)
(* Saved: the page of the saved events, open in another tab than the Feed. *)
(* A click on a card's save button runs toggleSaveId there: the write of   *)
(* the saved ids (SavedSaveClick), then the write of the counts and the    *)
(* rest of the handler (SavedSaveClickEnd); the Feed may run in between.   *)
(***************************************************************************)
\* what loadEvents() can resolve with
SavedCatalogs == {ld.file : ld \in Loads}

savedOf_all(all, saved) == all

\* all.filter(e => savedSet.has(e.id))
savedOf(all, saved) ==
    LET has(e) == e.id \in saved IN SelectSeq(all, has)

\* the EventCards of a list: a card kept under its key keeps its savedState,
\* a new one reads getSavedIds().includes(evt.id)
cardsOf(evs, old, saved) ==
    [id \in idsOf(evs) |-> IF id \in DOMAIN old THEN old[id] ELSE id \in saved]

\* the page after its first render, the load of the mount effect in flight
SavedMounted ==
    [mounted |-> TRUE, events |-> <<>>, loading |-> TRUE, cards |-> <<>>,
     mountLoad |-> TRUE, reloads |-> 0]

savedOthers ==
    <<storeVars, feedVars, selVars, memoVars, cardSaved, mq, customEvents, onboarding,
      dispatched, storageEvents, otherToggle>>

\* the mount effect after `await loadEvents()`
SavedLoadResolved(all) ==
    /\ savedPage # Unmounted /\ savedPage.mountLoad
    /\ otherToggle = Idle
    /\ LET evs == savedOf(all, savedIds)
       IN savedPage' = [savedPage EXCEPT !.events = evs, !.loading = FALSE,
                                         !.cards = cardsOf(evs, <<>>, savedIds),
                                         !.mountLoad = FALSE]
    /\ UNCHANGED savedOthers

\* loadEvents() rejects in the mount effect: nothing catches it
SavedLoadRejected ==
    /\ savedPage # Unmounted /\ savedPage.mountLoad
    /\ otherToggle = Idle
    /\ savedPage' = [savedPage EXCEPT !.mountLoad = FALSE]
    /\ UNCHANGED savedOthers

\* a card's save button: toggleSaveId writes the saved ids
SavedSaveClick(id) ==
    /\ savedPage # Unmounted /\ id \in DOMAIN savedPage.cards
    /\ savedPage.reloads < MaxReloads
    /\ OtherToggleIds(id)

\* toggleSaveId writes the counts; setSavedState(!wasSaved); onSaveToggle
\* starts loadEvents()
SavedSaveClickEnd ==
    /\ savedPage # Unmounted /\ otherToggle # Idle
    /\ storageEvents < MaxPending
    /\ saveCounts' = adjustCount(saveCounts, otherToggle.id, otherToggle.wasSaved)
    /\ otherToggle' = Idle
    /\ storageEvents' = IF saveCounts' # saveCounts THEN storageEvents + 1 ELSE storageEvents
    /\ savedPage' = [savedPage EXCEPT !.cards[otherToggle.id] = ~savedPage.cards[otherToggle.id],
                                      !.reloads = savedPage.reloads + 1]
    /\ UNCHANGED <<storePrefs, savedIds, feedVars, selVars, memoVars, cardSaved, mq,
                   customEvents, onboarding, dispatched>>

\* (variant) the reload settles and leaves the list as it was
SavedReloadResolved_keep(all) ==
    /\ savedPage # Unmounted /\ savedPage.reloads > 0
    /\ otherToggle = Idle
    /\ all \in SavedCatalogs
    /\ savedPage' = [savedPage EXCEPT !.reloads = savedPage.reloads - 1]
    /\ UNCHANGED savedOthers

\* onSaveToggle's loadEvents().then(...)
SavedReloadResolved(all) ==
    /\ savedPage # Unmounted /\ savedPage.reloads > 0
    /\ otherToggle = Idle
    /\ LET evs == savedOf(all, savedIds)
       IN savedPage' = [savedPage EXCEPT !.events = evs,
                                         !.cards = cardsOf(evs, savedPage.cards, savedIds),
                                         !.reloads = savedPage.reloads - 1]
    /\ UNCHANGED savedOthers

\* the reload rejects: nothing catches it
SavedReloadRejected ==
    /\ savedPage # Unmounted /\ savedPage.reloads > 0
    /\ otherToggle = Idle
    /\ savedPage' = [savedPage EXCEPT !.reloads = savedPage.reloads - 1]
    /\ UNCHANGED savedOthers

\* a custom event submitted under the id of a catalog event
EvClash ==
    [id |-> "e1", title |-> <<"M", "e">>, isCustom |-> TRUE, tags |-> <<T_ai>>,
     start |-> Iso(5)]

ClashLoad == [custom |-> <<EvClash>>, file |-> <<EvHack, EvTalk>>]

InitPages ==
    /\ \E ls \in InitStorage : InitFeed(ls.prefs, ls.store)
    /\ customEvents \in {<<EvMine>>, <<EvClash>>}
    /\ mq = MqIdle
    /\ onboarding = Unmounted
    /\ dispatched = <<>>
    /\ storageEvents = 0
    /\ otherToggle = Idle
    /\ savedPage = SavedMounted

NextPages ==
    \/ \E all \in SavedCatalogs : SavedLoadResolved(all)
    \/ SavedLoadRejected
    \/ \E id \in UNION {idsOf(all) : all \in SavedCatalogs} : SavedSaveClick(id)
    \/ SavedSaveClickEnd
    \/ \E all \in SavedCatalogs : SavedReloadResolved(all)
    \/ SavedReloadRejected
    \/ \E ld \in Loads \cup {ClashLoad} : ld.custom = customEvents /\ LoadResolved(ld.file)
    \/ \E id \in DOMAIN cardSaved : EventCardSaveClick(id)
    \/ \E id \in idsOf(events) : TrendingSaveClick(id)
    \/ onStorage

SpecPages == InitPages /\ [][NextPages]_vars

\* The Saved page on its own, with every loadEvents() fulfilled; the storage
\* events of its writes are delivered to the Feed of another context.
NextSaved ==
    \/ \E all \in SavedCatalogs : SavedLoadResolved(all)
    \/ \E id \in UNION {idsOf(all) : all \in SavedCatalogs} : SavedSaveClick(id)
    \/ SavedSaveClickEnd
    \/ \E all \in SavedCatalogs : SavedReloadResolved(all)
    \/ onStorage

SpecSaved == InitPages /\ [][NextSaved]_vars


(***************************************************************************)
(* matchesQuery applied to enumerated events and queries.                  *)
(***************************************************************************)
MatchChars == {"a", "b", "A", " ", "\t"}

MatchQueries == UNION {[1..n -> MatchChars] : n \in 0..MaxQueryLen}

MatchEvents ==
    { [id |-> "m1"],
      [id |-> "m2", title |-> <<"A", "a">>],
      [id |-> "m3", title |-> <<"a">>, description |-> <<"B">>],
      [id |-> "m4", organizer |-> <<"b", " ", "a">>, tags |-> << <<"A">> >>],
      [id |-> "m5", location |-> <<"b", "a">>, tags |-> << <<"a">>, <<"B", "b">> >>],
      [id |-> "m6", title |-> <<>>, tags |-> << <<"a", "\t", "b">> >>] }

InitMatch ==
    /\ InitFeed(Null, EmptyStore)
    /\ customEvents = <<>>
    /\ onboarding = Unmounted
    /\ dispatched = <<>>
    /\ storageEvents = 0
    /\ otherToggle = Idle
    /\ savedPage = Unmounted
    /\ \E e \in MatchEvents : \E query \in MatchQueries :
            mq = [done |-> FALSE, e |-> e, query |-> query, res |-> FALSE]

ApplyMatch ==
    /\ ~mq.done
    /\ mq' = [mq EXCEPT !.done = TRUE, !.res = matchesQuery(mq.e, mq.query)]
    /\ UNCHANGED <<storeVars, feedVars, selVars, memoVars, cardSaved, customEvents,
                   onboarding, dispatched, storageEvents, otherToggle, savedPage>>

NextMatch == ApplyMatch

SpecMatch == InitMatch /\ [][NextMatch]_vars

(***************************************************************************)
(* C1                                                                      *)
(***************************************************************************)
\* the maximal runs of non-white-space characters of the query, lower-cased
ClaimTokens(query) ==
    { toLowerCase(SubSeq(query, p[1], p[2])) :
        p \in { r \in (1..Len(query)) \X (1..Len(query)) :
                    /\ r[1] <= r[2]
                    /\ \A k \in r[1]..r[2] : query[k] \notin WhiteSpace
                    /\ (r[1] = 1 \/ query[r[1] - 1] \in WhiteSpace)
                    /\ (r[2] = Len(query) \/ query[r[2] + 1] \in WhiteSpace) } }

ClaimField(e, k) == IF k \in DOMAIN e THEN e[k] ELSE <<>>

RECURSIVE ClaimTagsText(_)
ClaimTagsText(tags) ==
    IF tags = <<>> THEN <<>> ELSE <<" ">> \o Head(tags) \o ClaimTagsText(Tail(tags))

\* title, description, organizer, location and the tags, one space between
\* neighbours, an absent field as the empty string, lower-cased
ClaimHay(e) ==
    toLowerCase(ClaimField(e, "title") \o <<" ">> \o ClaimField(e, "description")
                \o <<" ">> \o ClaimField(e, "organizer") \o <<" ">>
                \o ClaimField(e, "location")
                \o ClaimTagsText(ClaimField(e, "tags")))

ClaimSubstring(w, h) ==
    \E i \in 0..Len(h) : \E j \in i..Len(h) : SubSeq(h, i + 1, j) = w

ClaimMatches(e, query) == \A w \in ClaimTokens(query) : ClaimSubstring(w, ClaimHay(e))

\* C1: matchesQuery(e, q) is true exactly when every white-space-separated,
\* lower-cased token of q is a substring of the lower-cased, space-joined
\* concatenation of e's title, description, organizer, location and tags,
\* an absent field counting as the empty string; so a query that is empty
\* or all white space matches every event.
C1_MatchesQuery ==
    mq.done =>
        /\ mq.res = ClaimMatches(mq.e, mq.query)
        /\ (\A i \in DOMAIN mq.query : mq.query[i] \in WhiteSpace) => mq.res

\* a two-token query with an upper-case letter matched against an event that
\* lacks a description
C1_Witness ==
    /\ mq.done
    /\ mq.res
    /\ Cardinality(ClaimTokens(mq.query)) >= 2
    /\ \E i \in DOMAIN mq.query : mq.query[i] = "A"
    /\ "description" \notin DOMAIN mq.e

(***************************************************************************)
(* C2, C3: the base pool                                                   *)
(***************************************************************************)
ClaimNorm(s) == trim(toLowerCase(s))

ClaimFacultyOk(e, pr) ==
    "faculty" \notin DOMAIN e \/ e.faculty \in {"", "All", pr.faculty}

ClaimInterestOk(e, pr) ==
    \E t \in Range(ClaimField(e, "tags")) : \E n \in Range(pr.interests) :
        ClaimNorm(t) = ClaimNorm(n)

ClaimPersonalized(ev, pr) ==
    LET keep(e) == ClaimFacultyOk(e, pr) /\ ClaimInterestOk(e, pr)
    IN SelectSeq(ev, keep)

\* C2: in personalized mode with preferences, the base pool is exactly the
\* events whose faculty is absent, 'All' or the user's, and one of whose tags
\* equals one of the user's interests after both are trimmed and lower-cased.
C2_PersonalizedPool ==
    (viewMode = "personalized" /\ prefs # Null) =>
        basePool = ClaimPersonalized(events, prefs)

\* C3: in 'all' mode, or in personalized mode without preferences, the base
\* pool is the event list in its order; an empty event list gives an empty
\* base pool whatever the mode and the preferences.
C3_UnfilteredPool ==
    /\ (viewMode = "all" \/ prefs = Null) => basePool = events
    /\ events = <<>> => basePool = <<>>

\* 'all' mode chosen by a user who has preferences, over a loaded catalog
C3_Witness ==
    /\ viewMode = "all"
    /\ prefs # Null
    /\ Len(events) >= 3
    /\ basePool = events

(***************************************************************************)
(* C4: the tag cloud                                                       *)
(***************************************************************************)
\* the tag occurrences of the pool whose normalized form is the tag
ClaimOccurrences(bp, tag) ==
    Cardinality({ p \in UNION {{<<i, j>> : j \in DOMAIN ClaimField(bp[i], "tags")} :
                                    i \in DOMAIN bp} :
                    ClaimNorm(bp[p[1]].tags[p[2]]) = tag })

\* C4: the tag cloud has at most 5 entries, each showing one of the five
\* allow-list tags as the allow-list spells it, with the number of tag
\* occurrences of the base pool that normalize to it, in non-increasing
\* order of count.
C4_TagCloud ==
    /\ Len(tagCloud) <= 5
    /\ \A i \in DOMAIN tagCloud :
        /\ tagCloud[i].tag \in Range(ALLOWED_TAGS)
        /\ tagCloud[i].count = ClaimOccurrences(basePool, tagCloud[i].tag)
    /\ \A i \in DOMAIN tagCloud : \A j \in DOMAIN tagCloud :
        i < j => tagCloud[i].count >= tagCloud[j].count

\* three tags of different counts, one counted from a raw spelling the
\* allow-list does not have
C4_Witness ==
    /\ Len(tagCloud) >= 3
    /\ tagCloud[1].count > tagCloud[Len(tagCloud)].count
    /\ \E i \in DOMAIN basePool : \E t \in Range(ClaimField(basePool[i], "tags")) :
        /\ t \notin Range(ALLOWED_TAGS)
        /\ ClaimNorm(t) \in Range(ALLOWED_TAGS)

(***************************************************************************)
(* C5: the trending list                                                   *)
(***************************************************************************)
ClaimCount(counts, id) ==
    IF \E i \in DOMAIN counts : counts[i][1] = id
    THEN (CHOOSE en \in Range(counts) : en[1] = id)[2]
    ELSE 0

\* C5: the trending list has at most 3 entries, each for an event of the
\* current base pool whose save count is positive, showing that count, in
\* non-increasing order of count.
C5_Trending ==
    /\ Len(trending) <= 3
    /\ \A i \in DOMAIN trending :
        /\ ClaimCount(saveCounts, trending[i].evt.id) > 0
        /\ trending[i].evt \in Range(basePool)
        /\ trending[i].count = ClaimCount(saveCounts, trending[i].evt.id)
    /\ \A i \in DOMAIN trending : \A j \in DOMAIN trending :
        i < j => trending[i].count >= trending[j].count

\* after a save toggle: three entries of different counts, with a positive
\* count left out (an id outside the pool, or beyond the third place)
C5_Witness ==
    /\ version >= 1
    /\ Len(trending) = 3
    /\ trending[1].count > trending[3].count
    /\ \E en \in Range(saveCounts) :
        /\ en[2] > 0
        /\ en[1] \notin {trending[i].evt.id : i \in DOMAIN trending}
        /\ en[1] \in {basePool[i].id : i \in DOMAIN basePool}
    /\ \E en \in Range(saveCounts) :
        en[2] > 0 /\ en[1] \notin {basePool[i].id : i \in DOMAIN basePool}

(***************************************************************************)
(* C6, C7: the order of the visible list                                   *)
(***************************************************************************)
ClaimHasStart(e) == "start" \in DOMAIN e /\ e.start.kind = "date"

\* a before b by start time: scheduled before unscheduled, earlier first
ClaimDateOrdered(a, b) ==
    /\ ~(~ClaimHasStart(a) /\ ClaimHasStart(b))
    /\ (ClaimHasStart(a) /\ ClaimHasStart(b)) => a.start.ms <= b.start.ms

\* C6: sorted by date, every event with a start time comes before every
\* event without one, and the events with start times are in ascending order.
C6_DateSort ==
    sort = "date" =>
        \A i \in DOMAIN filtered : \A j \in DOMAIN filtered :
            i < j => ClaimDateOrdered(filtered[i], filtered[j])

\* two scheduled and two unscheduled events, listed in another order than
\* the base pool's
C6_Witness ==
    /\ sort = "date"
    /\ Cardinality({i \in DOMAIN filtered : ClaimHasStart(filtered[i])}) >= 2
    /\ Cardinality({i \in DOMAIN filtered : ~ClaimHasStart(filtered[i])}) >= 2
    /\ Len(filtered) = Len(basePool)
    /\ filtered # basePool

\* C7: sorted by trending, every visible event whose id is in the saved ids
\* comes before every one whose id is not, and each of the two groups is in
\* ascending order of start time with the unscheduled events last.
C7_TrendingSort ==
    sort = "trending" =>
        \A i \in DOMAIN filtered : \A j \in DOMAIN filtered :
            i < j =>
                /\ ~(filtered[i].id \notin savedIds /\ filtered[j].id \in savedIds)
                /\ (filtered[i].id \in savedIds <=> filtered[j].id \in savedIds)
                        => ClaimDateOrdered(filtered[i], filtered[j])

\* after a save toggle, a saved unscheduled event precedes an unsaved
\* scheduled one
C7_Witness ==
    /\ sort = "trending"
    /\ version >= 1
    /\ \E i \in DOMAIN filtered : \E j \in DOMAIN filtered :
        /\ i < j
        /\ filtered[i].id \in savedIds /\ ~ClaimHasStart(filtered[i])
        /\ filtered[j].id \notin savedIds /\ ClaimHasStart(filtered[j])

(***************************************************************************)
(* C8: the filters of the visible list                                     *)
(***************************************************************************)
ClaimPasses(e) ==
    /\ level = "all" \/ ("level" \in DOMAIN e /\ e.level = level)
    /\ \/ selectedTags = <<>>
       \/ \E t \in Range(ClaimField(e, "tags")) : \E c \in Range(selectedTags) :
            ClaimNorm(t) = ClaimNorm(c)
    /\ matchesQuery(e, q)

ClaimTimes(xs, e) == Cardinality({i \in DOMAIN xs : xs[i] = e})

\* C8: the visible list holds exactly the base-pool events that pass the
\* level filter (level 'all' or the event's level), the tag filter (no tag
\* selected, or one of the event's tags equal to one of the selected tags
\* after normalization) and matchesQuery; nothing else appears and nothing
\* passing is dropped.
C8_Filters ==
    \A e \in Range(basePool) \cup Range(filtered) :
        ClaimTimes(filtered, e) = IF ClaimPasses(e) THEN ClaimTimes(basePool, e) ELSE 0

\* all three filters set, two tags selected, and a visible event that has
\* only one of them
C8_Witness ==
    /\ level # "all"
    /\ Len(selectedTags) = 2
    /\ q # <<>>
    /\ Len(filtered) < Len(basePool)
    /\ \E e \in Range(filtered) : \E c \in Range(selectedTags) :
        \A t \in Range(ClaimField(e, "tags")) : ClaimNorm(t) # ClaimNorm(c)

(***************************************************************************)
(* C9: clearAllFilters                                                     *)
(***************************************************************************)
\* C9: a clear-filters step leaves query empty, level 'all', sort 'trending'
\* and no tag selected, and changes neither viewMode, the preferences, the
\* event list, the saved ids, the save counts nor the version counter.
C9_ClearFilters ==
    [][clearAllFilters =>
        /\ q' = <<>> /\ level' = "all" /\ sort' = "trending" /\ selectedTags' = <<>>
        /\ UNCHANGED <<viewMode, prefs, storePrefs, events, savedIds, saveCounts,
                       version>>]_vars

\* a personalized view, after a save toggle, with every filter off its
\* default: the state clear-filters resets
C9_Witness ==
    /\ viewMode = "personalized"
    /\ prefs # Null
    /\ version >= 1
    /\ savedIds # {}
    /\ q # <<>> /\ level # "all" /\ sort = "date" /\ selectedTags # <<>>

C11_CountsNonNegative ==
    \A en \in Range(saveCounts) : en[2] >= 0

\* the other context has written "e1" as saved and not yet its count; the
\* Feed has unsaved "e1" in between, from a count of 0
C11_Witness ==
    /\ otherToggle # Idle
    /\ otherToggle.id = "e1" /\ ~otherToggle.wasSaved
    /\ version >= 1
    /\ "e1" \notin savedIds
    /\ <<"e1", 0>> \in Range(saveCounts)

(***************************************************************************)
(* C12: first preferences switch the view                                  *)
(***************************************************************************)
\* C12: whenever a Feed in 'all' mode without preferences learns, from the
\* in-process notification or from a storage change of another context,
\* that preferences now exist, the same step puts it in 'personalized' mode.
C12_AutoPersonalize ==
    [][(viewMode = "all" /\ prefs = Null /\ prefs' # Null)
            => viewMode' = "personalized"]_vars

(***************************************************************************)
(* C13: no automatic switch of a chosen view                               *)
(***************************************************************************)
\* a step in which Onboarding dispatched 'userprefs-updated' to the Feed
ClaimNotified == (handleSave \/ handleSaveAndContinue) /\ dispatched' # <<>>

\* C13: a preferences notification leaves a Feed in 'all' mode that already
\* holds preferences (with preferences the view starts 'personalized', so
\* it is in 'all' by the user's choice) in 'all' mode, and leaves a Feed in
\* 'personalized' mode in 'personalized' mode.
C13_NoAutoSwitch ==
    [][ClaimNotified =>
          /\ (viewMode = "all" /\ prefs # Null) => viewMode' = "all"
          /\ viewMode = "personalized" => viewMode' = "personalized"]_vars


(***************************************************************************)
(* C14: convergence after another context's writes                         *)
(***************************************************************************)
ClaimMin(a, b) == IF a < b THEN a ELSE b

ClaimPositiveInPool(bp, counts) == {id \in idsOf(bp) : ClaimCount(counts, id) > 0}

\* tr is the top three of the pool's events with a positive count in counts
ClaimTrendingOf(tr, bp, counts) ==
    /\ Len(tr) = ClaimMin(3, Cardinality(ClaimPositiveInPool(bp, counts)))
    /\ \A i \in DOMAIN tr :
        /\ tr[i].evt.id \in ClaimPositiveInPool(bp, counts)
        /\ tr[i].count = ClaimCount(counts, tr[i].evt.id)
        /\ \A j \in DOMAIN tr : tr[j].evt.id = tr[i].evt.id => j = i
        /\ \A id \in ClaimPositiveInPool(bp, counts) \ {tr[j].evt.id : j \in DOMAIN tr} :
               ClaimCount(counts, id) <= tr[i].count

\* no unsaved event stands before a saved one
ClaimSavedFirst(fl, saved) ==
    \A i \in DOMAIN fl : \A j \in DOMAIN fl :
        i < j => ~(fl[i].id \notin saved /\ fl[j].id \in saved)

\* C14: once the Feed has received the storage events of every write another
\* context made, its prefs are the stored preferences, its trending list is
\* the one the stored save counts give, and its visible list (sorted by
\* 'trending') has the events of the stored saved ids first.
C14_ViewsConverge ==
    (storageEvents = 0 /\ otherToggle = Idle) =>
        /\ prefs = storePrefs
        /\ ClaimTrendingOf(trending, basePool, saveCounts)
        /\ (sort = "trending" => ClaimSavedFirst(filtered, savedIds))

(***************************************************************************)
(* C15: every save is notified                                             *)
(***************************************************************************)
\* a step in which an Onboarding save handler ran on a valid form
ClaimSaved ==
    /\ handleSaveAndContinue1 \/ handleSaveAndContinue \/ handleSave
    /\ valid(onboarding)

\* C15: the handler that saves preferences dispatches, in the same step, one
\* 'userprefs-updated' event whose detail is the value saved, and the Feed
\* of that context then holds that value as its prefs.
C15_SaveNotifies ==
    [][ClaimSaved =>
          /\ dispatched' = <<storePrefs'>>
          /\ prefs' = storePrefs']_vars


(***************************************************************************)
(* C16: a failed catalog load                                              *)
(***************************************************************************)
\* C16: after the catalog load failed, the Feed shows a non-empty error
\* message, is no longer loading, and its event list is the stored custom
\* events, from which the base pool, the tag cloud, the trending list and
\* the visible list are derived.
C16_LoadFailure ==
    error # "" =>
        /\ ~loading
        /\ events = customEvents
        /\ basePool = basePoolMemo(customEvents, prefs, viewMode)
        /\ tagCloud = tagCloudMemo(basePool)
        /\ trending = trendingMemo(basePool, saveCounts)
        /\ filtered = filteredMemo(basePool, level, sort, q, selectedTags, savedIds)

(***************************************************************************)
(* C17: what Onboarding writes                                             *)
(***************************************************************************)
ClaimNoDuplicates(xs) == \A i \in DOMAIN xs : \A j \in DOMAIN xs : xs[i] = xs[j] => i = j

\* a non-empty name without white space at either end, a faculty of the
\* enumeration, 2 to 5 interests without duplicates
ClaimValidPrefs(p) ==
    /\ p.name # <<>>
    /\ p.name[1] \notin WhiteSpace /\ p.name[Len(p.name)] \notin WhiteSpace
    /\ p.faculty \in Range(FACULTIES)
    /\ ClaimNoDuplicates(p.interests)
    /\ Len(p.interests) >= 2 /\ Len(p.interests) <= 5

\* the form's values are within the bounds of the preferences
ClaimFormInBounds(form) ==
    /\ \E i \in DOMAIN form.name : form.name[i] \notin WhiteSpace
    /\ form.faculty \in Range(FACULTIES)
    /\ ClaimNoDuplicates(form.interests)
    /\ Len(form.interests) >= 2 /\ Len(form.interests) <= 5

ClaimSaveAttempt == handleSaveAndContinue1 \/ handleSaveAndContinue \/ handleSave

\* C17: after every step the stored preferences, if any, have a non-empty
\* trimmed name, a faculty of the enumeration and 2 to 5 interests without
\* duplicates; and a save attempt on a form outside these bounds leaves the
\* stored preferences as they were and notifies nobody.
C17_WrittenPrefs ==
    [][/\ storePrefs' # Null => ClaimValidPrefs(storePrefs')
       /\ (ClaimSaveAttempt /\ ~ClaimFormInBounds(onboarding)) =>
              (storePrefs' = storePrefs /\ dispatched' = <<>>)]_vars

\* five interests were saved (not the five stored at the start), and the
\* form has since refused a sixth
C17_Witness ==
    /\ storePrefs # Null
    /\ storePrefs # PrefsFive
    /\ Len(storePrefs.interests) = 5
    /\ onboarding # Unmounted
    /\ onboarding.error # ""
    /\ onboarding.touched = AllTouched


(***************************************************************************)
(* C18: stale saved ids                                                    *)
(***************************************************************************)
\* list holds exactly the events of all whose id is in saved, each once
ClaimExactlySavedOf(list, all, saved) ==
    /\ \A e \in Range(all) : e \in Range(list) <=> e.id \in saved
    /\ Range(list) \subseteq Range(all)
    /\ ClaimNoDuplicates(list)

\* C18: whenever the Saved page has loaded or reloaded the events, it lists
\* exactly the loaded events whose id is a saved id, so a saved id without
\* a loaded event is not listed; and after every step the trending list
\* holds only events of the base pool, so an id with a positive count and
\* no event in the pool is not listed.
C18_StaleIds ==
    [][/\ \A all \in SavedCatalogs :
            (SavedLoadResolved(all) \/ SavedReloadResolved(all)) =>
                ClaimExactlySavedOf(savedPage'.events, all, savedIds')
       /\ \A i \in DOMAIN trending' : trending'[i].evt \in Range(basePool')]_vars

\* the Saved page lists an event although another saved id ("e3") has no
\* loaded event, and the Feed's trending list is not empty although the
\* counted id "gone" has no event
C18_Witness ==
    /\ savedPage # Unmounted /\ ~savedPage.loading
    /\ savedPage.events # <<>>
    /\ "e3" \in savedIds /\ "e3" \notin idsOf(savedPage.events)
    /\ ClaimCount(saveCounts, "gone") > 0
    /\ trending # <<>>


(***************************************************************************)
(* C19: the version counter after a save toggle                            *)
(***************************************************************************)
\* C19: the version counter never decreases and moves only by 1, only in a
\* step in which the Feed has written a save toggle to the store; and every
\* save toggle made from the Feed (event card or trending card) moves it by
\* exactly 1 and leaves a trending list and a visible list computed from
\* the saved ids and save counts as written by that toggle.
C19_VersionAfterWrite ==
    [][/\ version' >= version
       /\ version' # version => (version' = version + 1 /\ savedIds' # savedIds)
       /\ (savedIds' # savedIds /\ storageEvents' = storageEvents) =>
            /\ version' = version + 1
            /\ ClaimTrendingOf(trending', basePool', saveCounts')
            /\ (sort' = "trending" => ClaimSavedFirst(filtered', savedIds'))]_vars

\* after two save toggles from the Feed, made while another context's
\* writes were not all delivered: a trending list and a saved event listed
\* first, before an unsaved one
C19_Witness ==
    /\ version = 2
    /\ storageEvents > 0
    /\ trending # <<>>
    /\ Len(filtered) >= 2
    /\ filtered[1].id \in savedIds
    /\ filtered[Len(filtered)].id \notin savedIds


(***************************************************************************)
(* C20: ties in the tag cloud                                              *)
(***************************************************************************)
ClaimAllowIndex(tag) == CHOOSE k \in DOMAIN ALLOWED_TAGS : ALLOWED_TAGS[k] = tag

\* C20: two tags of the tag cloud with the same count stand in the order
\* in which the allow-list declares them, whatever the order of the events
\* and tags of the base pool.
C20_TieOrder ==
    \A i \in DOMAIN tagCloud : \A j \in DOMAIN tagCloud :
        (i < j /\ tagCloud[i].count = tagCloud[j].count)
            => ClaimAllowIndex(tagCloud[i].tag) < ClaimAllowIndex(tagCloud[j].tag)

(***************************************************************************)
(* C21: a custom event with the id of a catalog event                      *)
(***************************************************************************)
\* the first event of bp with this id
ClaimFirstOf(bp, id) ==
    bp[CHOOSE i \in DOMAIN bp : bp[i].id = id /\ \A j \in 1..(i - 1) : bp[j].id # id]

\* C21: the loaded event list starts with the stored custom events, and
\* every trending entry carries the first event of the base pool that has
\* its id: for an id shared by a custom and a catalog event, the custom one.
C21_FirstOccurrence ==
    /\ events # <<>> => SubSeq(events, 1, Len(customEvents)) = customEvents
    /\ \A i \in DOMAIN trending :
          trending[i].evt = ClaimFirstOf(basePool, trending[i].evt.id)


(***************************************************************************)
(* C22: the card's savedState against the store's SavedSet                 *)
(***************************************************************************)
\* C22: every mounted event card shows its event as saved exactly when the
\* id of the event is in the store's SavedSet, whatever save toggles were
\* made on the event card and on the trending card of the same event.
C22_CardMatchesStore ==
    \A id \in DOMAIN cardSaved : cardSaved[id] = (id \in savedIds)


(***************************************************************************)
(* C23: the Saved page after its reloads                                   *)
(***************************************************************************)
\* the Saved page has loaded, no toggle is under way and no reload is pending
ClaimSavedSettled ==
    /\ savedPage # Unmounted
    /\ ~savedPage.mountLoad /\ ~savedPage.loading
    /\ savedPage.reloads = 0
    /\ otherToggle = Idle

\* C23: on the Saved page, once every reload started by the save toggles on
\* its cards has been fulfilled, in whatever order, the displayed list holds
\* exactly the loaded events whose id is in the store's SavedSet.
C23_ReloadsConverge ==
    ClaimSavedSettled =>
        \E all \in SavedCatalogs : ClaimExactlySavedOf(savedPage.events, all, savedIds)

\* e1 was unsaved on its card and the reload took it off the list, which
\* still shows e3
C23_Witness ==
    /\ ClaimSavedSettled
    /\ savedIds = {"e3"}
    /\ idsOf(savedPage.events) = {"e3"}


(***************************************************************************)
(* C24: the loading state of the views that load the catalog on mount      *)
(***************************************************************************)
\* C24: in the Feed and on the Saved page, once the load started on mount
\* has settled, fulfilled or rejected, the view is out of its loading
\* state, and a view that has left its loading state does not return to it.
C24_LoadingEnds ==
    [][/\ (savedPage' # Unmounted /\ ~savedPage'.mountLoad) => ~savedPage'.loading
       /\ (LoadRejected \/ \E ld \in Loads \cup {ClashLoad} : LoadResolved(ld.file))
              => ~loading'
       /\ ~loading => ~loading'
       /\ (savedPage # Unmounted /\ ~savedPage.loading) => ~savedPage'.loading]_vars


(***************************************************************************)
(* C25: events saved in the Feed, on the Saved page                        *)
(***************************************************************************)
\* C25: when the Saved page finishes loading the catalog the Feed has loaded
\* too, every event the Feed shows whose id is in the store's SavedSet,
\* a locally stored custom event included, is in the Saved page's list.
C25_SavedInFeedListed ==
    [][\A all \in SavedCatalogs :
          (SavedLoadResolved(all) /\ events = customEvents \o all) =>
              \A e \in Range(events) :
                  e.id \in savedIds' => e \in Range(savedPage'.events)]_vars


(***************************************************************************)
(* C26: the selected tags                                                  *)
(***************************************************************************)
\* the tag of a chip of the displayed tag cloud
ClaimCloudTags == {tagCloud[i].tag : i \in DOMAIN tagCloud}

\* e carries a tag that is, normalised, one of the selected tags
ClaimCarriesSelected(e, sel) ==
    \E t \in Range(TagsOf(e)) : \E s \in Range(sel) : ClaimNorm(t) = ClaimNorm(s)

\* the selected tags are distinct allow-list tags, and a change of the view
\* mode or of the preferences leaves them selected and filtering
ClaimSelectionKept ==
    /\ ClaimNoDuplicates(selectedTags')
    /\ Range(selectedTags') \subseteq Range(ALLOWED_TAGS)
    /\ ((\E m \in {"all", "personalized"} : setViewMode(m)) \/ onStorage) =>
          /\ selectedTags' = selectedTags
          /\ selectedTags # <<>> =>
                \A e \in Range(filtered') : ClaimCarriesSelected(e, selectedTags)

\* C26 as stated: the selected tags are distinct allow-list tags, a change
\* of view mode or preferences keeps them selected and filtering, and
\* clicking the same chip twice gives back the previous selected-tags list.
C26_DoubleToggleList ==
    [][/\ ClaimSelectionKept
       /\ \A tag \in ClaimCloudTags :
             toggledTags(toggledTags(selectedTags, tag), tag) = selectedTags]_vars

\* C26: in every reachable Feed state the selected tags have no duplicates
\* and are canonical allow-list tags; clicking the same chip twice gives
\* back the same set of selected tags (the list itself when the tag was not
\* selected before); and a change of view mode or of the preferences leaves
\* the selected tags as they were, still filtering the visible list, also
\* when it takes a selected tag out of the displayed tag cloud.
C26_SelectedTags ==
    [][/\ ClaimSelectionKept
       /\ \A tag \in ClaimCloudTags :
             LET twice == toggledTags(toggledTags(selectedTags, tag), tag)
             IN /\ Range(twice) = Range(selectedTags)
                /\ tag \notin Range(selectedTags) => twice = selectedTags]_vars

\* two tags are selected and one of them is no longer in the tag cloud of a
\* non-empty base pool
C26_Witness ==
    /\ Len(selectedTags) = 2
    /\ basePool # <<>>
    /\ \E t \in Range(selectedTags) : t \notin ClaimCloudTags
    /\ \E t \in Range(selectedTags) : t \in ClaimCloudTags


====
